---- MODULE Spec2Model ----
(***************************************************************************)
(* Model of the t-on-patcher firmware sprite editor (src/tamaed/main.js):  *)
(* the block scanner (TOImage.scanForImage, Application.buildMap), the     *)
(* indexed-colour codec (decodePalette, decodeImage, packRaw4bpp,          *)
(* nearestIndex) and the patch path (headerInfo, patchRawIntoFirmware and  *)
(* the single/batch patch click handlers).                                 *)
(*                                                                         *)
(* Byte buffers are sequences of naturals in 0..255, 1-indexed in the      *)
(* model and 0-indexed in the source: source index i is model index i+1.   *)
(***************************************************************************)
EXTENDS Integers, Sequences, FiniteSets, TLC

\* ------------------------------------------------------------ JS values
\* JavaScript's undefined (an out-of-range typed-array read) and the NaN it
\* turns into under arithmetic; every real value of the program is >= 0.
Undef == 0 - 1

\* null / no value.
None == [none |-> TRUE]

\* bytes[i] of a Uint8Array (0-based): undefined outside the array.
At(bytes, i) == IF i >= 0 /\ i < Len(bytes) THEN bytes[i + 1] ELSE Undef

\* bytes.subarray(from, to): clamps both ends to the array.
Min(a, b) == IF a < b THEN a ELSE b
Max(a, b) == IF a > b THEN a ELSE b
SubArray(bytes, from, to) ==
    SubSeq(bytes, Min(Max(from, 0), Len(bytes)) + 1, Min(Max(to, 0), Len(bytes)))

\* Math.ceil(n / d) for naturals.
CeilDiv(n, d) == (n + d - 1) \div d

\* ------------------------------------------------------------ TOImage
TOImageHeaderSize == 6

\* new TOImage(offset, bytes): a TODataItem with the header fields and the
\* palette / pixel views cut out of bytes.
TOImage(offset, bytes) ==
    LET colorsCount == At(bytes, 2)
        paletteSize == colorsCount * 2
    IN  [offset      |-> offset,
         size        |-> Len(bytes),
         bytes       |-> bytes,
         width       |-> At(bytes, 0),
         height      |-> At(bytes, 1),
         colorsCount |-> colorsCount,
         paletteData |-> SubArray(bytes, TOImageHeaderSize, TOImageHeaderSize + paletteSize),
         imageData   |-> SubArray(bytes, TOImageHeaderSize + paletteSize, Len(bytes))]

\* (variant: the length guard written >= 10)
OkHeaderAtLeast10(bytes, offset) ==
    /\ Len(bytes) - offset >= 10
    /\ At(bytes, offset) > 0 /\ At(bytes, offset) <= 255
    /\ At(bytes, offset + 1) > 0 /\ At(bytes, offset + 1) <= 255
    /\ At(bytes, offset + 2) > 0
    /\ At(bytes, offset + 3) = 0
    /\ At(bytes, offset + 4) = 1
    /\ At(bytes, offset + 5) = 255

\* The field checks of scanForImage (okHeader).
OkHeader(bytes, offset) ==
    /\ Len(bytes) - offset > 10
    /\ At(bytes, offset) > 0 /\ At(bytes, offset) <= 255
    /\ At(bytes, offset + 1) > 0 /\ At(bytes, offset + 1) <= 255
    /\ At(bytes, offset + 2) > 0
    /\ At(bytes, offset + 3) = 0
    /\ At(bytes, offset + 4) = 1
    /\ At(bytes, offset + 5) = 255

\* totalSize of scanForImage: header + palette words + pixel data.
\* (variant: Math.floor in place of Math.ceil)
TotalSizeFloor(bytes, offset) ==
    LET colors == At(bytes, offset + 2)
        pixels == At(bytes, offset) * At(bytes, offset + 1)
        pixelsPerByte == IF colors > 16 THEN 1 ELSE 2
    IN  (6 + colors * 2) + (pixels \div pixelsPerByte)

TotalSize(bytes, offset) ==
    LET colors == At(bytes, offset + 2)
        headerSize == 6 + colors * 2
        pixels == At(bytes, offset) * At(bytes, offset + 1)
        pixelsPerByte == IF colors > 16 THEN 1 ELSE 2
        imageBytes == CeilDiv(pixels, pixelsPerByte)
    IN  headerSize + imageBytes

\* (variant: no "make sure the slice fits" check, as in the older copy of
\* the scanner; subarray then clamps the span to the buffer)
scanForImageNoFit(bytes, offset) ==
    IF ~OkHeader(bytes, offset) THEN None
    ELSE TOImage(offset, SubArray(bytes, offset, offset + TotalSize(bytes, offset)))

\* TOImage.scanForImage(bytes, offset): the single-offset probe.
scanForImage(bytes, offset) ==
    IF ~OkHeader(bytes, offset) THEN None
    ELSE IF offset + TotalSize(bytes, offset) > Len(bytes) THEN None
    ELSE TOImage(offset, SubArray(bytes, offset, offset + TotalSize(bytes, offset)))

\* ------------------------------------------------------------ codec
\* Math.round(c * 255 / max) for a channel value c; c*255/max is never
\* half-way between two integers for max = 31 or 63, so this is exact.
Round255(c, max) == (2 * c * 255 + max) \div (2 * max)

\* An operand of <<, | or & : undefined converts to 0.
ToInt(v) == IF v = Undef THEN 0 ELSE v

\* One palette word (hi << 8) | lo decoded to [red, green, blue, 255].
\* (variant: the word read as RGB565, red in the high bits)
DecodeColorRGB(hi, lo) ==
    LET color16 == ToInt(hi) * 256 + ToInt(lo)
    IN  <<Round255((color16 \div 2048) % 32, 31),
          Round255((color16 \div 32) % 64, 63),
          Round255(color16 % 32, 31),
          255>>

DecodeColor(hi, lo) ==
    LET color16 == ToInt(hi) * 256 + ToInt(lo)
        blue  == Round255((color16 \div 2048) % 32, 31)
        green == Round255((color16 \div 32) % 64, 63)
        red   == Round255(color16 % 32, 31)
    IN  <<red, green, blue, 255>>

\* TOImage.decodePalette(bytes): one entry per two bytes, i += 2.
decodePalette(bytes) ==
    [k \in 1 .. CeilDiv(Len(bytes), 2) |->
        DecodeColor(At(bytes, 2 * (k - 1)), At(bytes, 2 * (k - 1) + 1))]

\* The outcome of a call that throws.
Thrown(what) == [ok |-> FALSE, error |-> what]

\* (variant: the high nibble decoded first)
decodeImageHighFirst(bytes, palette) ==
    LET halfBytePixel == Len(palette) <= 16
        pixelsCount == IF halfBytePixel THEN Len(bytes) * 2 ELSE Len(bytes)
        index(p) == IF halfBytePixel
                    THEN IF p % 2 = 0 THEN bytes[p \div 2 + 1] \div 16
                                      ELSE bytes[p \div 2 + 1] % 16
                    ELSE bytes[p + 1]
    IN  IF \E p \in 0 .. pixelsCount - 1 : index(p) >= Len(palette)
        THEN Thrown("TypeError")
        ELSE [ok |-> TRUE,
              pixels |-> [q \in 1 .. pixelsCount |-> palette[index(q - 1) + 1]]]

\* (variant: an index without palette entry leaves its pixel as allocated)
decodeImageLenient(bytes, palette) ==
    LET halfBytePixel == Len(palette) <= 16
        pixelsCount == IF halfBytePixel THEN Len(bytes) * 2 ELSE Len(bytes)
        index(p) == IF halfBytePixel
                    THEN IF p % 2 = 0 THEN bytes[p \div 2 + 1] % 16
                                      ELSE bytes[p \div 2 + 1] \div 16
                    ELSE bytes[p + 1]
    IN  [ok |-> TRUE,
         pixels |-> [q \in 1 .. pixelsCount |->
                        IF index(q - 1) >= Len(palette) THEN <<0, 0, 0, 0>>
                        ELSE palette[index(q - 1) + 1]]]

\* TOImage.decodeImage(bytes, palette): the RGBA pixels, one 4-tuple per
\* pixel. pixels.set(undefined, ...) throws a TypeError.
decodeImage(bytes, palette) ==
    LET halfBytePixel == Len(palette) <= 16
        pixelsCount == IF halfBytePixel THEN Len(bytes) * 2 ELSE Len(bytes)
        index(p) == IF halfBytePixel
                    THEN IF p % 2 = 0 THEN bytes[p \div 2 + 1] % 16
                                      ELSE bytes[p \div 2 + 1] \div 16
                    ELSE bytes[p + 1]
    IN  IF \E p \in 0 .. pixelsCount - 1 : index(p) >= Len(palette)
        THEN Thrown("TypeError")
        ELSE [ok |-> TRUE,
              pixels |-> [q \in 1 .. pixelsCount |-> palette[index(q - 1) + 1]]]

\* (variant: the two nibbles packed in the other order)
packRaw4bppSwapped(indexes) ==
    [j \in 1 .. CeilDiv(Len(indexes), 2) |->
        LET i == 2 * (j - 1)
            a == indexes[i + 1] % 16
            b == IF i + 1 < Len(indexes) THEN indexes[i + 2] % 16 ELSE 0
        IN  a * 16 + b]

\* (variant: the indexes packed without the & 0x0f masks, stored in a byte)
packRaw4bppUnmasked(indexes) ==
    [j \in 1 .. CeilDiv(Len(indexes), 2) |->
        LET i == 2 * (j - 1)
            a == indexes[i + 1]
            b == IF i + 1 < Len(indexes) THEN indexes[i + 2] ELSE 0
        IN  (b * 16 + a) % 256]

\* packRaw4bpp(indexes): out[j] = (b << 4) | a for each pair of indexes.
packRaw4bpp(indexes) ==
    [j \in 1 .. CeilDiv(Len(indexes), 2) |->
        LET i == 2 * (j - 1)
            a == indexes[i + 1] % 16
            b == IF i + 1 < Len(indexes) THEN indexes[i + 2] % 16 ELSE 0
        IN  b * 16 + a]

\* The squared distance of nearestIndex over the three colour channels.
\* (variant: the blue channel left out)
Dist2NoBlue(rgb, p) ==
    (rgb[1] - p[1]) * (rgb[1] - p[1]) + (rgb[2] - p[2]) * (rgb[2] - p[2])

Dist2(rgb, p) ==
    LET dr == rgb[1] - p[1]
        dg == rgb[2] - p[2]
        db == rgb[3] - p[3]
    IN  dr * dr + dg * dg + db * db

\* (variant: a later entry at the same distance replaces the best one)
RECURSIVE NearestLoopLast(_, _, _, _, _)
NearestLoopLast(rgb, palette, i, bi, bd) ==
    IF ~(i < Len(palette)) THEN bi
    ELSE LET d == Dist2(rgb, palette[i + 1])
         IN  IF bd = Undef \/ d <= bd
             THEN NearestLoopLast(rgb, palette, i + 1, i, d)
             ELSE NearestLoopLast(rgb, palette, i + 1, bi, bd)

\* The loop of nearestIndex from entry i on, with the best index bi and best
\* distance bd so far (bd = Undef stands for Infinity); it breaks at d = 0.
RECURSIVE NearestLoop(_, _, _, _, _)
NearestLoop(rgb, palette, i, bi, bd) ==
    IF ~(i < Len(palette)) THEN bi
    ELSE LET d == Dist2(rgb, palette[i + 1])
         IN  IF bd = Undef \/ d < bd
             THEN IF d = 0 THEN i
                  ELSE NearestLoop(rgb, palette, i + 1, i, d)
             ELSE NearestLoop(rgb, palette, i + 1, bi, bd)

\* nearestIndex(rgb, palette)
nearestIndex(rgb, palette) == NearestLoop(rgb, palette, 0, 0, Undef)

\* The last line of pngToRawUsingPalette's onload: the index bytes as they
\* are stored, colors <= 16 ? packRaw4bpp(idx) : idx.
EncodeIndexes(indexes, colors) ==
    IF colors # Undef /\ colors <= 16 THEN packRaw4bpp(indexes) ELSE indexes

\* ------------------------------------------------------------ patch helpers
NaN == Undef

HexDigits == <<"0", "1", "2", "3", "4", "5", "6", "7", "8", "9", "a", "b", "c", "d", "e", "f">>

\* n.toString(16)
RECURSIVE ToHex(_)
ToHex(n) == IF n < 16 THEN HexDigits[n + 1] ELSE ToHex(n \div 16) \o HexDigits[(n % 16) + 1]

\* n.toString()
RECURSIVE ToDec(_)
ToDec(n) == IF n < 10 THEN HexDigits[n + 1] ELSE ToDec(n \div 10) \o HexDigits[(n % 10) + 1]

\* firmwarePaletteAt(bytes, offset, colors): the palette read straight from
\* the firmware; no iteration when colors is undefined.
firmwarePaletteAt(bytes, offset, colors) ==
    LET start == offset + 6
    IN  [k \in 1 .. (IF colors = Undef THEN 0 ELSE colors) |->
            LET hi == At(bytes, start + (k - 1) * 2)
                lo == At(bytes, start + (k - 1) * 2 + 1)
                c16 == ToInt(hi) * 256 + ToInt(lo)
                b == (c16 \div 2048) % 32
                g == (c16 \div 32) % 64
                r == c16 % 32
            IN  <<(2 * (r * 255) + 31) \div 62,
                  (2 * (g * 255) + 63) \div 126,
                  (2 * (b * 255) + 31) \div 62,
                  255>>]

\* (variant: the pixel data taken as one byte per pixel at every depth)
headerInfoBytePerPixel(bytes, off) ==
    LET w == At(bytes, off)
        h == At(bytes, off + 1)
        colors == At(bytes, off + 2)
        ok == At(bytes, off + 3) = 0 /\ At(bytes, off + 4) = 1 /\ At(bytes, off + 5) = 255
        headerSize == IF colors = Undef THEN NaN ELSE 6 + colors * 2
        dataStart == IF headerSize = NaN THEN NaN ELSE off + headerSize
        pixels == IF w = Undef \/ h = Undef THEN NaN ELSE w * h
    IN  [w |-> w, h |-> h, colors |-> colors, ok |-> ok,
         headerSize |-> headerSize, dataStart |-> dataStart, dataLen |-> pixels]

\* headerInfo(bytes, off); arithmetic on undefined gives NaN, and
\* undefined <= 16 is false.
headerInfo(bytes, off) ==
    LET w == At(bytes, off)
        h == At(bytes, off + 1)
        colors == At(bytes, off + 2)
        ok == At(bytes, off + 3) = 0 /\ At(bytes, off + 4) = 1 /\ At(bytes, off + 5) = 255
        headerSize == IF colors = Undef THEN NaN ELSE 6 + colors * 2
        dataStart == IF headerSize = NaN THEN NaN ELSE off + headerSize
        pixels == IF w = Undef \/ h = Undef THEN NaN ELSE w * h
        dataLen == IF colors # Undef /\ colors <= 16
                   THEN (IF pixels = NaN THEN NaN ELSE CeilDiv(pixels, 2))
                   ELSE pixels
    IN  [w |-> w, h |-> h, colors |-> colors, ok |-> ok,
         headerSize |-> headerSize, dataStart |-> dataStart, dataLen |-> dataLen]

\* (variant: no test of the picture's size; the canvas of w x h pixels is
\* transparent black where the picture does not reach)
pngToRawUnchecked(png, w, h, colors, pal) ==
    [ok |-> TRUE,
     bytes |-> EncodeIndexes(
                  [i \in 1 .. w * h |->
                      nearestIndex(IF i <= Len(png.data) THEN png.data[i] ELSE <<0, 0, 0, 0>>,
                                   pal)],
                  colors)]

\* pngToRawUsingPalette(pngBlob, w, h, colors, palette): rejects on a size
\* mismatch, else quantizes every pixel and packs the indices. A picture is
\* [w, h, data], data the w*h opaque pixels row by row.
pngToRawUsingPalette(png, w, h, colors, pal) ==
    IF png.w # w \/ png.h # h
    THEN Thrown("PNG dimensions")
    ELSE [ok |-> TRUE,
          bytes |-> EncodeIndexes([i \in 1 .. w * h |-> nearestIndex(png.data[i], pal)],
                                  colors)]

\* fwBytes.set(rawBytes, dataStart): a NaN offset converts to 0; a source
\* that does not fit throws a RangeError and writes nothing.
SetBytes(fw, raw, at) ==
    LET target == IF at = NaN THEN 0 ELSE at
    IN  IF Len(raw) + target > Len(fw)
        THEN Thrown("RangeError")
        ELSE [ok |-> TRUE,
              bytes |-> [i \in 1 .. Len(fw) |->
                            IF i > target /\ i <= target + Len(raw)
                            THEN raw[i - target] ELSE fw[i]]]

\* (variant: the length check left out)
patchRawUnchecked(fw, off, raw, info) == SetBytes(fw, raw, info.dataStart)

\* (variant: the data written at the block's offset)
patchRawAtOffset(fw, off, raw, info) ==
    IF Len(raw) # info.dataLen THEN Thrown("RAW size") ELSE SetBytes(fw, raw, off)

\* patchRawIntoFirmware(fwBytes, off, rawBytes, info): the outcome, either
\* thrown or the bytes of fwBytes after the write.
patchRawIntoFirmware(fw, off, raw, info) ==
    IF Len(raw) # info.dataLen
    THEN Thrown("RAW size")
    ELSE SetBytes(fw, raw, info.dataStart)

\* (variant: the cursor is not moved past a matched block)
SkipPastNot(i, item) == i + 1

\* (variant: the loop's idx++ undone after a match)
SkipPastStuck(i, item) == i

\* (variant: only the 6 header bytes of a matched block are skipped)
SkipPastHeader(i, item) == (i + TOImageHeaderSize - 1) + 1

\* idx += item.size - 1, followed by the loop's idx++.
SkipPast(i, item) == (i + item.size - 1) + 1

\* Application.buildMap run to its end on bytes, from cursor i with the
\* local map acc.
RECURSIVE BuildMapFrom(_, _, _)
BuildMapFrom(bytes, i, acc) ==
    IF ~(i < Len(bytes)) THEN acc
    ELSE LET item == scanForImage(bytes, i)
         IN  IF item # None
             THEN BuildMapFrom(bytes, SkipPast(i, item), Append(acc, item))
             ELSE BuildMapFrom(bytes, i + 1, acc)

buildMap(bytes) == BuildMapFrom(bytes, 0, << >>)

\* ------------------------------------------------------------ state
VARIABLES
    firmware,   \* app.firmware: None or the loaded buffer [bytes |-> ...]
    map,        \* app.map: None or the array of blocks [items |-> ...]
    pc,         \* where buildMap stands: "idle", "scan" or "done"
    idx,        \* buildMap's loop cursor
    lmap,       \* buildMap's local map array
    probe,      \* the last direct call of the probe: [offset, item], or None
    palette,    \* codec: the palette in use
    indexes,    \* codec: the palette indices of the pixels
    packed,     \* codec: None or the encoded pixel bytes [bytes |-> ...]
    pixels,     \* codec: None or the outcome of decodeImage
    quant,      \* codec: None or the indices found by nearestIndex
    call,       \* None or the last direct call of a codec function, with its outcome
    loading,    \* the files whose read a changeFirmware call is awaiting
    loads,      \* number of changeFirmware calls so far
    emitted,    \* the events emitted so far, oldest first
    selectedLi, \* None or the list item marked "selected": [id |-> data-id]
    previewItem,    \* init's previewItem: None or a block
    enabled,    \* the buttons without "disabled": patch, batch, exportRaw
    exported,   \* None or the last file written by Export RAW
    single,     \* None or the single patch suspended on its file read
    batch,      \* None or the batch patch suspended on a file read
    patched,    \* None or the last call of the patch step: inputs and outcome
    out         \* None or the last alert / download of a patch handler

scanVars == <<firmware, map, pc, idx, lmap, probe>>
codecVars == <<palette, indexes, packed, pixels, quant, call>>
uiVars == <<selectedLi, previewItem, enabled, exported>>
opVars == <<single, batch, patched, out>>
appVars == <<loading, loads, emitted, uiVars, opVars>>
vars == <<scanVars, codecVars, appVars>>

\* ------------------------------------------------------------ inputs
\* Firmware buffers are concatenations of at most MaxTokens tokens: sprite
\* headers, complete small blocks, and filler bytes.
MaxTokens == 4

Filler18 == <<0, 31, 7, 224, 248, 0, 255, 255, 0, 0, 8, 65, 16, 130, 0, 1, 0, 16>>

Tokens ==
    { <<1, 1, 1, 0, 1, 255>>,
      <<3, 3, 2, 0, 1, 255>>,
      <<2, 1, 17, 0, 1, 255>>,
      <<2, 1, 1, 0, 1, 255, 0, 31, 16>>,
      <<0>>,
      <<5, 1, 255>>,
      Filler18 }

RECURSIVE Concats(_)
Concats(n) ==
    IF n = 0 THEN {<< >>}
    ELSE LET S == Concats(n - 1) IN S \cup {s \o t : s \in S, t \in Tokens}

\* The example of the format description: a 4x2 sprite of 4 colours at
\* offset 100.
ExampleFile ==
    [i \in 1 .. 100 |-> 0]
        \o <<4, 2, 4, 0, 1, 255>> \o <<0, 31, 7, 224, 248, 0, 255, 255>> \o <<16, 50, 1, 35>>

ScanFiles == Concats(MaxTokens) \cup {ExampleFile}

\* The application's shell right after init(): nothing loaded, no selection,
\* patch and export buttons disabled.
AppIdle ==
    /\ loading = {}
    /\ loads = 0
    /\ emitted = << >>
    /\ selectedLi = None
    /\ previewItem = None
    /\ enabled = [patch |-> FALSE, batch |-> FALSE, exportRaw |-> FALSE]
    /\ exported = None
    /\ single = None
    /\ batch = None
    /\ patched = None
    /\ out = None

\* ------------------------------------------------------------ codec runs
\* Palettes are decoded from words of PaletteWords, 1 to MaxColors entries,
\* and from two long word lists of 16 and 17 entries (4bpp / 8bpp).
MaxColors == 3
MaxPixels == 3

PaletteWords == {<<0, 0>>, <<0, 31>>, <<248, 0>>, <<255, 255>>}

LongPaletteBytes(n) ==
    [i \in 1 .. 2 * n |-> IF i % 2 = 1 THEN 8 * ((i - 1) \div 2) ELSE (i - 2) \div 2]

RECURSIVE WordLists(_)
WordLists(n) ==
    IF n = 0 THEN {<< >>}
    ELSE LET S == WordLists(n - 1) IN S \cup {s \o w : s \in S, w \in PaletteWords}

Palettes ==
    {decodePalette(b) : b \in (WordLists(MaxColors) \ {<< >>})
                               \cup {LongPaletteBytes(16), LongPaletteBytes(17)}}

IndexValues(pal) ==
    IF Len(pal) > MaxColors THEN {0, 1, Len(pal) - 1} ELSE 0 .. Len(pal) - 1

RECURSIVE IndexSeqs(_, _)
IndexSeqs(pal, n) ==
    IF n = 0 THEN {<< >>}
    ELSE LET S == IndexSeqs(pal, n - 1)
         IN  S \cup {Append(s, v) : s \in S, v \in IndexValues(pal)}

CodecIdle ==
    /\ palette = << >>
    /\ indexes = << >>
    /\ packed = None
    /\ pixels = None
    /\ quant = None
    /\ call = None

\* Encode the indices as the patch path stores them.
Encode ==
    /\ packed = None
    /\ packed' = [bytes |-> EncodeIndexes(indexes, Len(palette))]
    /\ UNCHANGED <<palette, indexes, pixels, quant, call, scanVars, appVars>>

\* Decode the stored bytes with the same palette.
Decode ==
    /\ packed # None
    /\ pixels = None
    /\ pixels' = decodeImage(packed.bytes, palette)
    /\ UNCHANGED <<palette, indexes, packed, quant, call, scanVars, appVars>>

\* Quantize the decoded picture (its Len(indexes) pixels) against the same
\* palette, pixel by pixel as pngToRawUsingPalette's loop does.
Quantize ==
    /\ pixels # None
    /\ pixels.ok
    /\ quant = None
    /\ quant' = [indexes |->
                    [i \in 1 .. Len(indexes) |-> nearestIndex(pixels.pixels[i], palette)]]
    /\ UNCHANGED <<palette, indexes, packed, pixels, call, scanVars, appVars>>

ScanIdle ==
    /\ firmware = None
    /\ map = None
    /\ pc = "idle"
    /\ idx = 0
    /\ lmap = << >>
    /\ probe = None

InitCodec ==
    /\ palette \in Palettes
    /\ indexes \in IndexSeqs(palette, MaxPixels)
    /\ packed = None
    /\ pixels = None
    /\ quant = None
    /\ call = None
    /\ ScanIdle
    /\ AppIdle

NextCodec == Encode \/ Decode \/ Quantize

SpecCodec == InitCodec /\ [][NextCodec]_vars

\* ------------------------------------------------------------ direct calls
\* The codec functions called directly, one call per run, each on every
\* argument of a small set: palette bytes of up to MaxPaletteBytes bytes, pixel data of up to
\* MaxImageBytes bytes, colours of three levels per channel, index arrays of
\* up to MaxPixels entries.
MaxPaletteBytes == 4
MaxImageBytes == 2

ByteValues == {0, 7, 31, 224, 248, 255}
PixelByteValues == {0, 1, 2, 16, 33, 255}
IndexBytes == {0, 1, 15, 16, 37, 255}
Levels == {0, 128, 255}
Colours == {<<r, g, b, a>> : r \in Levels, g \in Levels, b \in Levels, a \in {0, 255}}

RECURSIVE ByteSeqs(_, _)
ByteSeqs(vals, n) ==
    IF n = 0 THEN {<< >>}
    ELSE LET S == ByteSeqs(vals, n - 1) IN S \cup {Append(s, v) : s \in S, v \in vals}

\* The outcome of a call that returns v.
Returned(v) == [ok |-> TRUE, value |-> v]

\* TOImage.decodePalette(bytes)
DecodePaletteCall ==
    /\ call = None
    /\ \E bytes \in ByteSeqs(ByteValues, MaxPaletteBytes) :
          call' = [fn |-> "decodePalette", bytes |-> bytes,
                   result |-> Returned(decodePalette(bytes))]
    /\ UNCHANGED <<palette, indexes, packed, pixels, quant, scanVars, appVars>>

\* TOImage.decodeImage(bytes, palette)
DecodeImageCall ==
    /\ call = None
    /\ \E pal \in Palettes, bytes \in ByteSeqs(PixelByteValues, MaxImageBytes) :
          call' = [fn |-> "decodeImage", bytes |-> bytes, palette |-> pal,
                   result |-> decodeImage(bytes, pal)]
    /\ UNCHANGED <<palette, indexes, packed, pixels, quant, scanVars, appVars>>

\* nearestIndex(rgb, palette)
NearestIndexCall ==
    /\ call = None
    /\ \E rgb \in Colours, pal \in Palettes \cup {<< >>} :
          call' = [fn |-> "nearestIndex", rgb |-> rgb, palette |-> pal,
                   result |-> Returned(nearestIndex(rgb, pal))]
    /\ UNCHANGED <<palette, indexes, packed, pixels, quant, scanVars, appVars>>

\* packRaw4bpp(indexes), indexes a Uint8Array
PackCall ==
    /\ call = None
    /\ \E ix \in ByteSeqs(IndexBytes, MaxPixels) :
          call' = [fn |-> "packRaw4bpp", indexes |-> ix,
                   result |-> Returned(packRaw4bpp(ix))]
    /\ UNCHANGED <<palette, indexes, packed, pixels, quant, scanVars, appVars>>

InitCalls ==
    /\ ScanIdle
    /\ CodecIdle
    /\ AppIdle

NextCalls == DecodePaletteCall \/ DecodeImageCall \/ NearestIndexCall \/ PackCall

SpecCalls == InitCalls /\ [][NextCalls]_vars

\* ------------------------------------------------------------ buildMap
\* Application.buildMap, one loop iteration per step: probe at the cursor,
\* on a match push the item and skip past it, then idx++.
ScanStep ==
    /\ pc = "scan"
    /\ idx < Len(firmware.bytes)
    /\ LET item == scanForImage(firmware.bytes, idx)
       IN  IF item # None
           THEN /\ lmap' = Append(lmap, item)
                /\ idx' = SkipPast(idx, item)
           ELSE /\ lmap' = lmap
                /\ idx' = idx + 1
    /\ UNCHANGED <<firmware, map, pc, probe, codecVars, appVars>>

\* The loop's exit: this.map = map; emit mapReady.
ScanDone ==
    /\ pc = "scan"
    /\ ~(idx < Len(firmware.bytes))
    /\ map' = [items |-> lmap]
    /\ pc' = "done"
    /\ UNCHANGED <<firmware, idx, lmap, probe, codecVars, appVars>>

\* A direct call scanForImage(firmware.bytes, offset) at any offset of the
\* buffer, one call per run.
Probe ==
    /\ pc = "done"
    /\ probe = None
    /\ \E offset \in 0 .. Len(firmware.bytes) :
          probe' = [offset |-> offset, item |-> scanForImage(firmware.bytes, offset)]
    /\ UNCHANGED <<firmware, map, pc, idx, lmap, codecVars, appVars>>

\* A firmware has been loaded (this.firmware set, this.map = null) and
\* buildMap starts on it.
InitScan ==
    /\ firmware \in {[bytes |-> f, id |-> 1] : f \in ScanFiles}
    /\ map = None
    /\ pc = "scan"
    /\ idx = 0
    /\ lmap = << >>
    /\ probe = None
    /\ CodecIdle
    /\ AppIdle

NextScan == ScanStep \/ ScanDone \/ Probe

SpecScan == InitScan /\ [][NextScan]_vars

\* buildMap has no await: once called it runs on until it has emitted
\* mapReady, so its loop body and its exit are taken whenever they can be.
SpecScanFair == SpecScan /\ WF_vars(ScanStep) /\ WF_vars(ScanDone)

\* ------------------------------------------------------------ application
\* At most MaxLoads firmware files are opened in one run.
MaxLoads == 2

\* Two 4bpp sprites, 3x1 of 2 colours at 0 and 2x1 of 1 colour at 12.
FwTwo ==
    <<3, 1, 2, 0, 1, 255, 0, 31, 248, 0, 16, 1>>
        \o <<2, 1, 1, 0, 1, 255, 0, 31, 0>> \o <<0, 0>>

\* One 4bpp sprite, 1x2 of 1 colour, at offset 2.
FwOne == <<7, 7>> \o <<1, 2, 1, 0, 1, 255, 255, 255, 0>> \o <<0, 0>>

\* One 8bpp sprite, 2x1 of 17 colours, at offset 0.
FwDeep == <<2, 1, 17, 0, 1, 255>> \o LongPaletteBytes(17) \o <<16, 1>>

\* As long as FwTwo, with other sprites: 1x1 of 1 colour at 0 and 1x1 of 2
\* colours at 12.
FwAlt ==
    <<1, 1, 1, 0, 1, 255, 0, 0, 0>> \o <<0, 0, 0>>
        \o <<1, 1, 2, 0, 1, 255, 0, 31, 248, 0, 1>>

\* One 4bpp sprite, 1x1 of 1 colour, whose pixel byte 0x10 has index 0 in
\* its low nibble and 1 in the unused high nibble.
FwPad == <<1, 1, 1, 0, 1, 255, 255, 255, 16>> \o <<0, 0>>

\* No sprite at all.
FwNone == <<1, 2, 3>>

AppFiles == {FwTwo, FwOne, FwDeep, FwAlt, FwPad, FwNone}

Red == <<255, 0, 0, 255>>
Blue == <<0, 0, 255, 255>>
Black == <<0, 0, 0, 255>>
White == <<255, 255, 255, 255>>

RawFile(b) == [kind |-> "raw", bytes |-> b]
PngFile(w, h, data) == [kind |-> "png", w |-> w, h |-> h, data |-> data]

\* The files offered to the single patch: .raw files of 1, 2 and 3 bytes
\* and pictures of 3x1, 2x1 and 1x2 pixels.
RawFiles == {RawFile(<<3>>), RawFile(<<1, 0>>), RawFile(<<9, 9, 9>>)}
PngFiles ==
    {PngFile(3, 1, <<Red, Blue, Red>>), PngFile(2, 1, <<Black, White>>),
     PngFile(1, 2, <<White, Black>>)}

\* The folders offered to the batch patch: base name (the file name in lower
\* case without "img_" and extension) and file.
Named(base, f) == [base |-> base, f |-> f]

Folders ==
    { {},
      {Named("0x0", RawFile(<<1, 0>>)), Named("c", RawFile(<<3>>))},
      {Named("0", PngFile(3, 1, <<Red, Blue, Red>>)), Named("12", RawFile(<<3>>))},
      {Named("2", RawFile(<<9, 9, 9>>))},
      {Named("0", RawFile(<<9, 9, 9>>)), Named("0xc", RawFile(<<3>>))},
      {Named("2", PngFile(1, 2, <<White, Black>>))} }

\* new Uint8Array(app.firmware): a copy in a buffer of its own (buffer 0
\* stands for a fresh private buffer; a loaded firmware has id >= 1).
\* (variant: a view on the loaded firmware's buffer)
Uint8ArrayView(buf) == [bytes |-> buf.bytes, buffer |-> buf.id]

Uint8ArrayCopy(buf) == [bytes |-> buf.bytes, buffer |-> 0]

\* What a write through array fw leaves in app.firmware.
FirmwareAfterWrite(fw, newBytes) ==
    IF firmware # None /\ fw.buffer = firmware.id
    THEN [firmware EXCEPT !.bytes = newBytes]
    ELSE firmware

\* The outcome of the handlers' "raw = ..." for file f.
RawOf(f, info, pal) ==
    IF f.kind = "raw" THEN [ok |-> TRUE, bytes |-> f.bytes]
    ELSE pngToRawUsingPalette(f, info.w, info.h, info.colors, pal)

\* The palette the handlers read before a picture is converted.
PalFor(f, bytes, off, info) ==
    IF f.kind = "raw" THEN << >> ELSE firmwarePaletteAt(bytes, off, info.colors)

\* The try block after the await: raw, then patchRawIntoFirmware.
TryPatch(fw, off, f, info, pal) ==
    LET raw == RawOf(f, info, pal)
    IN  IF raw.ok THEN patchRawIntoFirmware(fw, off, raw.bytes, info) ELSE raw

\* The folder file for block ent: the first of the candidate names
\* 0x<hex>, <hex>, <decimal> that the folder holds; None without one.
FileFor(folder, ent) ==
    LET candidates == <<"0x" \o ToHex(ent.offset), ToHex(ent.offset), ToDec(ent.offset)>>
        has(k) == \E n \in folder : n.base = candidates[k]
        get(k) == (CHOOSE n \in folder : n.base = candidates[k]).f
    IN  IF has(1) THEN get(1) ELSE IF has(2) THEN get(2) ELSE IF has(3) THEN get(3) ELSE None

\* The position of the first block from position from on that has a folder
\* file; 0 when the loop runs to its end.
NextWithFile(items, from, folder) ==
    IF \E k \in from .. Len(items) : FileFor(folder, items[k]) # None
    THEN CHOOSE k \in from .. Len(items) :
            /\ FileFor(folder, items[k]) # None
            /\ \A j \in from .. k - 1 : FileFor(folder, items[j]) = None
    ELSE 0

Outcome(by, status, bytes) == [by |-> by, status |-> status, bytes |-> bytes]

\* app.changeFirmware(file) up to its await of file.arrayBuffer().
ChangeFirmware ==
    /\ loads < MaxLoads
    /\ \E file \in AppFiles \ loading :
          loading' = loading \cup {file}
    /\ loads' = loads + 1
    /\ UNCHANGED <<scanVars, codecVars, emitted, uiVars, opVars>>

\* this.emit(event) as its listeners find the application: the firmware held
\* and whether the map is set (m is this.map at that moment).
Event(name, fw, m) == [event |-> name, fw |-> fw.id, mapSet |-> m # None]

\* (variant: the map of the previous firmware is kept when there is one)
MapAfterBuildKept(bytes, old) == IF old = None THEN [items |-> buildMap(bytes)] ELSE old

\* this.map once the firmwareReady listener's buildMap has run on bytes; old
\* is the map before the load.
MapAfterBuild(bytes, old) == [items |-> buildMap(bytes)]

\* changeFirmware resumes: the firmware is replaced, the map set to null and
\* firmwareReady emitted; its listener clears the list and runs buildMap,
\* which ends by setting the map and emitting mapReady; the mapReady
\* listeners fill the list again.
FirmwareRead ==
    /\ \E file \in loading :
          /\ loading' = loading \ {file}
          /\ firmware' = [bytes |-> file, id |-> IF firmware = None THEN 1 ELSE firmware.id + 1]
          /\ map' = MapAfterBuild(file, map)
    /\ emitted' = emitted \o <<Event("firmwareReady", firmware', None),
                                Event("mapReady", firmware', map')>>
    /\ selectedLi' = None
    /\ UNCHANGED <<pc, idx, lmap, probe, codecVars, loads, previewItem, enabled, exported, opVars>>

\* TOImage.getImage() of a block: its pixel data decoded with its palette.
getImage(dataItem) == decodeImage(dataItem.imageData, decodePalette(dataItem.paletteData))

\* A click on item i of the entities list: mark it selected, preview it;
\* the export buttons are enabled once its picture has been drawn, the
\* patch button by the second listener.
ListClick ==
    /\ map # None
    /\ \E i \in 0 .. Len(map.items) - 1 :
          LET dataItem == map.items[i + 1]
              drawn == getImage(dataItem).ok
          IN  /\ selectedLi' = [id |-> i]
              /\ previewItem' = dataItem
              /\ enabled' = [enabled EXCEPT !.patch = TRUE,
                                            !.exportRaw = enabled.exportRaw \/ drawn]
    /\ UNCHANGED <<scanVars, codecVars, loading, loads, emitted, exported, opVars>>

\* Export RAW: the previewed item's bytes are downloaded.
ExportRaw ==
    /\ enabled.exportRaw
    /\ previewItem # None
    /\ exported' = [kind |-> "raw", bytes |-> previewItem.bytes,
                    offset |-> previewItem.offset, size |-> previewItem.size]
    /\ UNCHANGED <<scanVars, codecVars, loading, loads, emitted, selectedLi, previewItem, enabled, opVars>>

\* The batch export has run to its end, which enables the batch patch
\* button; the button that starts it is enabled by mapReady.
BatchExport ==
    /\ map # None
    /\ ~enabled.batch
    /\ enabled' = [enabled EXCEPT !.batch = TRUE]
    /\ UNCHANGED <<scanVars, codecVars, loading, loads, emitted, selectedLi, previewItem, exported, opVars>>

\* The files the single-edit input can hold: none, one of the fixed files, or
\* the file Export RAW wrote.
SingleInputs ==
    {None} \cup RawFiles \cup PngFiles
        \cup (IF exported = None THEN {} ELSE {exported})

\* btnPatchSelected's click handler up to its await (one patch
\* handler is in flight at a time: each works on a copy of its own).
PatchClick ==
    /\ enabled.patch
    /\ single = None /\ batch = None
    /\ \E f \in SingleInputs :
          LET ent == IF selectedLi # None THEN map.items[selectedLi.id + 1] ELSE previewItem
              selected == ent
              info == headerInfo(firmware.bytes, selected.offset)
          IN  IF f = None \/ ~info.ok
              THEN /\ out' = Outcome("single", "alert", << >>)
                   /\ single' = None
                   /\ patched' = None
              ELSE /\ single' = [selected |-> selected,
                                 off     |-> selected.offset,
                                 info    |-> info,
                                 fwBytes |-> Uint8ArrayCopy(firmware),
                                 f       |-> f,
                                 pal     |-> PalFor(f, firmware.bytes, selected.offset, info)]
                   /\ out' = None
                   /\ patched' = None
    /\ UNCHANGED <<scanVars, codecVars, loading, loads, emitted, uiVars, batch>>

\* The single patch resumes: patch the copy and download it, or alert.
PatchResume ==
    /\ single # None
    /\ LET res == TryPatch(single.fwBytes.bytes, single.off, single.f, single.info, single.pal)
       IN  /\ patched' = [by |-> "single", fw |-> single.fwBytes.bytes, off |-> single.off,
                          f |-> single.f, info |-> single.info,
                          raw |-> RawOf(single.f, single.info, single.pal), result |-> res]
           /\ firmware' = IF res.ok THEN FirmwareAfterWrite(single.fwBytes, res.bytes)
                          ELSE firmware
           /\ out' = IF res.ok THEN Outcome("single", "download", res.bytes)
                     ELSE Outcome("single", "failed", << >>)
    /\ single' = None
    /\ UNCHANGED <<map, pc, idx, lmap, probe, codecVars, loading, loads, emitted, uiVars, batch>>

\* The batch loop from position from on, up to its next await: the state of
\* the suspended batch, or None when the loop has run to its end. The header
\* info and the palette are read from app.firmware as it is then (infoId
\* notes which load that is; fwId, which load fwBytes is a copy of).
BatchAt(b, from) ==
    LET k == NextWithFile(b.items, from, b.folder)
    IN  IF k = 0 THEN None
        ELSE LET ent == b.items[k]
                 f == FileFor(b.folder, ent)
                 info == headerInfo(firmware.bytes, ent.offset)
             IN  [b EXCEPT !.pos = k, !.f = f, !.info = info, !.infoId = firmware.id,
                           !.pal = PalFor(f, firmware.bytes, ent.offset, info)]

\* What the batch handler's locals hold past its loop.
BatchRun(b) ==
    [fwId |-> b.fwId, folder |-> b.folder, patchedCount |-> b.patchedCount,
     missing |-> b.missing]

\* (variant: the copy is downloaded whether or not a block was patched)
BatchEndAlways(b) ==
    [by |-> "batch", status |-> "download", bytes |-> b.fwBytes.bytes, run |-> BatchRun(b)]

\* What the batch handler does past its loop: an alert and nothing else when
\* no block was patched, the download of the copy otherwise.
BatchEnd(b) ==
    IF b.patchedCount = 0
    THEN [by |-> "batch", status |-> "alert", bytes |-> << >>, run |-> BatchRun(b)]
    ELSE [by |-> "batch", status |-> "download", bytes |-> b.fwBytes.bytes,
          run |-> BatchRun(b)]

\* btnBatchPatch's click handler up to its first await (one patch
\* handler is in flight at a time).
BatchClick ==
    /\ enabled.batch
    /\ single = None /\ batch = None
    /\ patched' = None
    /\ \E folder \in Folders :
          IF folder = {}
          THEN /\ out' = Outcome("batch", "alert", << >>)
               /\ batch' = None
          ELSE LET b == [fwBytes |-> Uint8ArrayCopy(firmware), fwId |-> firmware.id,
                         folder |-> folder,
                         items |-> map.items, pos |-> 0, f |-> None, info |-> None,
                         infoId |-> 0,
                         pal |-> << >>, patchedCount |-> 0, missing |-> << >>]
               IN  /\ batch' = BatchAt(b, 1)
                   /\ out' = IF BatchAt(b, 1) = None THEN BatchEnd(b) ELSE None
    /\ UNCHANGED <<scanVars, codecVars, loading, loads, emitted, uiVars, single>>

\* The batch resumes: patch the copy for the current block, count it or
\* note the failure, and run the loop on to the next await or to its end.
BatchResume ==
    /\ batch # None
    /\ LET ent == batch.items[batch.pos]
           res == TryPatch(batch.fwBytes.bytes, ent.offset, batch.f, batch.info, batch.pal)
           b == IF res.ok
                THEN [batch EXCEPT !.fwBytes.bytes = res.bytes,
                                   !.patchedCount = batch.patchedCount + 1]
                ELSE [batch EXCEPT !.missing = Append(batch.missing, ent.offset)]
       IN  /\ patched' = [by |-> "batch", fw |-> batch.fwBytes.bytes, off |-> ent.offset,
                          f |-> batch.f, info |-> batch.info,
                          raw |-> RawOf(batch.f, batch.info, batch.pal), result |-> res]
           /\ firmware' = IF res.ok THEN FirmwareAfterWrite(batch.fwBytes, res.bytes)
                          ELSE firmware
           /\ batch' = BatchAt(b, batch.pos + 1)
           /\ out' = IF BatchAt(b, batch.pos + 1) = None THEN BatchEnd(b) ELSE None
    /\ UNCHANGED <<map, pc, idx, lmap, probe, codecVars, loading, loads, emitted, uiVars, single>>

Init ==
    /\ ScanIdle
    /\ CodecIdle
    /\ AppIdle

Next ==
    \/ ChangeFirmware
    \/ FirmwareRead
    \/ ListClick
    \/ ExportRaw
    \/ BatchExport
    \/ PatchClick
    \/ PatchResume
    \/ BatchClick
    \/ BatchResume

Spec == Init /\ [][Next]_vars

\* ------------------------------------------------------------ scanner claims
\* pixel-data length of a w x h sprite of c colours
PixelBytes(w, h, c) == IF c <= 16 THEN CeilDiv(w * h, 2) ELSE w * h

\* C1: the map (also while it is being built) is ordered by strictly
\* ascending offset and adjacent blocks never overlap:
\* block[i].offset + block[i].size <= block[i+1].offset.
NonOverlapping(m) ==
    \A i \in 1 .. Len(m) - 1 :
        /\ m[i].offset < m[i + 1].offset
        /\ m[i].offset + m[i].size <= m[i + 1].offset

C1_MapOrderedNonOverlapping ==
    /\ NonOverlapping(lmap)
    /\ map # None => NonOverlapping(map.items)

\* C1 witness: a finished map of two blocks where a header that the probe
\* accepts lies inside the first block.
C1_Witness ==
    /\ pc = "done" /\ map # None /\ Len(map.items) >= 2
    /\ \E o \in map.items[1].offset + 1 .. map.items[1].offset + map.items[1].size - 1 :
          scanForImage(firmware.bytes, o) # None

\* The conditions of acceptance, with MinRemaining bytes needed from offset.
AcceptCond(bytes, offset, minRemaining) ==
    /\ Len(bytes) - offset >= minRemaining
    /\ At(bytes, offset) \in 1 .. 255
    /\ At(bytes, offset + 1) \in 1 .. 255
    /\ At(bytes, offset + 2) > 0
    /\ <<At(bytes, offset + 3), At(bytes, offset + 4), At(bytes, offset + 5)>> = <<0, 1, 255>>
    /\ offset + 6 + 2 * At(bytes, offset + 2)
          + PixelBytes(At(bytes, offset), At(bytes, offset + 1), At(bytes, offset + 2))
          <= Len(bytes)

\* C5 as stated: the probe returns a block exactly when at least 10 bytes
\* remain from offset, width and height are in [1,255], colorCount > 0, the
\* magic bytes are 0,1,255 and the span fits in the buffer.
C5_ProbeAcceptsIff10 ==
    probe # None =>
        ((probe.item # None) <=> AcceptCond(firmware.bytes, probe.offset, 10))

\* C5 amended: the same with at least 11 bytes remaining from offset
\* (bytes.length - offset > 10).
C5_ProbeAcceptsIff11 ==
    probe # None =>
        ((probe.item # None) <=> AcceptCond(firmware.bytes, probe.offset, 11))

\* C5 witness: the probe was called on a well-formed header whose span fits
\* with exactly 10 bytes remaining, and returned null.
C5_Witness ==
    /\ probe # None
    /\ probe.item = None
    /\ Len(firmware.bytes) - probe.offset = 10
    /\ AcceptCond(firmware.bytes, probe.offset, 10)

\* A header at offset that passes the field checks but whose span runs past
\* the end of the buffer.
Truncated(bytes, offset) ==
    /\ Len(bytes) - offset > 10
    /\ At(bytes, offset) \in 1 .. 255
    /\ At(bytes, offset + 1) \in 1 .. 255
    /\ At(bytes, offset + 2) > 0
    /\ <<At(bytes, offset + 3), At(bytes, offset + 4), At(bytes, offset + 5)>> = <<0, 1, 255>>
    /\ offset + 6 + 2 * At(bytes, offset + 2)
          + PixelBytes(At(bytes, offset), At(bytes, offset + 1), At(bytes, offset + 2))
          > Len(bytes)

FullSpan(b) == 6 + 2 * b.colorsCount + PixelBytes(b.width, b.height, b.colorsCount)

\* C6: a truncated candidate is rejected by the probe; every block of the
\* map lies inside the buffer with size equal to its full computed span; and
\* after a truncated candidate the scan resumes at the next offset.
C6_ProbeAndMap ==
    /\ (probe # None /\ Truncated(firmware.bytes, probe.offset)) => probe.item = None
    /\ \A i \in 1 .. Len(lmap) :
          /\ lmap[i].offset + lmap[i].size <= Len(firmware.bytes)
          /\ lmap[i].size = FullSpan(lmap[i])
    /\ map # None =>
          \A i \in 1 .. Len(map.items) :
              /\ map.items[i].offset + map.items[i].size <= Len(firmware.bytes)
              /\ map.items[i].size = FullSpan(map.items[i])

C6_ResumeAtNext ==
    (pc = "scan" /\ idx < Len(firmware.bytes) /\ Truncated(firmware.bytes, idx))
        => (idx' = idx + 1 /\ lmap' = lmap)

C6_TruncatedRejected == [](C6_ProbeAndMap) /\ [][C6_ResumeAtNext]_vars

\* C6 witness: the scan has passed a truncated candidate, found a block
\* after it, and the probe was called on the truncated candidate.
C6_Witness ==
    /\ pc = "done" /\ probe # None
    /\ Truncated(firmware.bytes, probe.offset)
    /\ \E i \in 1 .. Len(map.items) : map.items[i].offset > probe.offset

\* C7: every block has size 6 + 2*colorCount + ceil(w*h/pixelsPerEntry); its
\* paletteData is the 2*colorCount bytes at block bytes [6, 6+2*colorCount)
\* and its imageData the remaining ceil(w*h/pixelsPerEntry) bytes; the
\* example header [4,2,4,0,1,255] at offset 100 gives offset 100, size 18.
BlockLayout(b) ==
    LET c == b.colorsCount
        n == PixelBytes(b.width, b.height, c)
    IN  /\ b.width = firmware.bytes[b.offset + 1]
        /\ b.height = firmware.bytes[b.offset + 2]
        /\ c = firmware.bytes[b.offset + 3]
        /\ b.size = 6 + 2 * c + n
        /\ b.bytes = [k \in 1 .. b.size |-> firmware.bytes[b.offset + k]]
        /\ b.paletteData = [k \in 1 .. 2 * c |-> firmware.bytes[b.offset + 6 + k]]
        /\ b.imageData = [k \in 1 .. n |-> firmware.bytes[b.offset + 6 + 2 * c + k]]

C7_BlockLayout ==
    /\ \A i \in 1 .. Len(lmap) : BlockLayout(lmap[i])
    /\ map # None => \A i \in 1 .. Len(map.items) : BlockLayout(map.items[i])
    /\ (map # None /\ firmware.bytes = ExampleFile) =>
          /\ Len(map.items) = 1
          /\ map.items[1].offset = 100 /\ map.items[1].size = 18
          /\ map.items[1].paletteData = <<0, 31, 7, 224, 248, 0, 255, 255>>
          /\ map.items[1].imageData = <<16, 50, 1, 35>>

\* C7 witness: the example has been scanned into its one block.
C7_Witness ==
    /\ map # None /\ firmware.bytes = ExampleFile /\ Len(map.items) = 1

\* C14: the scan cursor strictly increases on every iteration, whether the
\* probe accepts or rejects, and never passes an iteration without leaving
\* the loop running; the scan of every buffer comes to its end with the
\* map set.
C14_CursorAdvances ==
    (pc = "scan" /\ (idx' # idx \/ lmap' # lmap \/ pc' # pc)) =>
        \/ idx' > idx /\ pc' = "scan" /\ map' = None
        \/ idx' = idx /\ idx >= Len(firmware.bytes) /\ pc' = "done" /\ map' # None

C14_ScanTerminates ==
    [][C14_CursorAdvances]_vars /\ <>(pc = "done" /\ map # None)

\* C14 witness: the scan of a buffer with a truncated candidate and a
\* rejected header in it, and no block at all, has come to its end.
C14_Witness ==
    /\ pc = "done" /\ map # None /\ map.items = << >>
    /\ \E o \in 0 .. Len(firmware.bytes) - 1 : Truncated(firmware.bytes, o)
    /\ Len(firmware.bytes) > 20

\* The reference procedure: from cursor on, append the block the probe
\* accepts at the cursor and go on at its end, else go on one byte further.
RECURSIVE GreedyFrom(_, _)
GreedyFrom(bytes, cursor) ==
    IF cursor >= Len(bytes) THEN << >>
    ELSE LET block == scanForImage(bytes, cursor)
         IN  IF block # None
             THEN <<block>> \o GreedyFrom(bytes, block.offset + block.size)
             ELSE GreedyFrom(bytes, cursor + 1)

\* items holds exactly the blocks whose offset is the smallest accepting
\* offset at or after the end of the previous block (or 0).
LeftmostAfterPrevious(bytes, items) ==
    LET accepts(o) == scanForImage(bytes, o) # None
        start(i) == IF i = 1 THEN 0 ELSE items[i - 1].offset + items[i - 1].size
    IN  /\ \A i \in 1 .. Len(items) :
              /\ items[i].offset >= start(i)
              /\ items[i] = scanForImage(bytes, items[i].offset)
              /\ \A o \in start(i) .. items[i].offset - 1 : ~accepts(o)
        /\ \A o \in start(Len(items) + 1) .. Len(bytes) - 1 : ~accepts(o)

\* C20: the map is what the reference procedure gives; a block is in the
\* map exactly when its offset is the smallest accepting offset at or after
\* the end of the previous block, and an accepting offset strictly inside a
\* matched block is never reported. (Stated of the map as buildMap leaves
\* it; a later direct probe changes neither the map nor the firmware.)
C20_GreedyLeftmost ==
    (map # None /\ probe = None) =>
        /\ map.items = GreedyFrom(firmware.bytes, 0)
        /\ LeftmostAfterPrevious(firmware.bytes, map.items)
        /\ \A i \in 1 .. Len(map.items) : \A j \in 1 .. Len(map.items) :
              ~(/\ map.items[j].offset > map.items[i].offset
                /\ map.items[j].offset < map.items[i].offset + map.items[i].size)

\* C20 witness: a map of two blocks, the first with an accepting offset
\* strictly inside it, the second after a gap of rejected offsets.
C20_Witness ==
    /\ map # None /\ Len(map.items) = 2
    /\ \E o \in map.items[1].offset + 1 .. map.items[1].offset + map.items[1].size - 1 :
          scanForImage(firmware.bytes, o) # None
    /\ map.items[2].offset > map.items[1].offset + map.items[1].size

\* C24: for every block of the map, headerInfo at the block's offset reports
\* ok, the block's width, height and colour count, dataStart at the absolute
\* start of the block's pixel bytes and dataStart + dataLen at the block's
\* end, inside the buffer; firmwarePaletteAt gives the block's decoded
\* palette. (Stated of the map as buildMap leaves it.)
C24_GeometryAgrees ==
    (map # None /\ probe = None) =>
        \A i \in 1 .. Len(map.items) :
            LET b == map.items[i]
                info == headerInfo(firmware.bytes, b.offset)
            IN  /\ info.ok
                /\ info.w = b.width /\ info.h = b.height /\ info.colors = b.colorsCount
                /\ info.dataStart = b.offset + b.size - Len(b.imageData)
                /\ \A k \in 1 .. Len(b.imageData) :
                      firmware.bytes[info.dataStart + k] = b.imageData[k]
                /\ info.dataLen = Len(b.imageData)
                /\ info.dataStart + info.dataLen = b.offset + b.size
                /\ b.offset + b.size <= Len(firmware.bytes)
                /\ firmwarePaletteAt(firmware.bytes, b.offset, info.colors)
                      = decodePalette(b.paletteData)

\* C24 witness: the scan has left a map with a block of 8 bits per pixel.
C24_Witness ==
    /\ map # None /\ probe = None
    /\ \E i \in 1 .. Len(map.items) :
          /\ map.items[i].colorsCount > 16
          /\ Len(map.items[i].imageData) = map.items[i].width * map.items[i].height

\* ------------------------------------------------------------ lifecycle claims
\* C15: in every reachable state, over any interleaving of firmware loads
\* suspended on their file read, the map is null or the complete scan of the
\* firmware held; mapReady is emitted only with the map set, and every
\* firmwareReady is followed by a mapReady for the same firmware.
C15_MapLifecycle ==
    /\ map # None =>
          /\ firmware # None
          /\ map.items = GreedyFrom(firmware.bytes, 0)
    /\ \A k \in 1 .. Len(emitted) :
          /\ emitted[k].event = "mapReady" => emitted[k].mapSet
          /\ emitted[k].event = "firmwareReady" =>
                \E j \in k + 1 .. Len(emitted) :
                    emitted[j].event = "mapReady" /\ emitted[j].fw = emitted[k].fw

\* C15 witness: a second firmware, with blocks in it, has replaced the
\* first while a patch begun under the first is still suspended.
C15_Witness ==
    /\ firmware # None /\ firmware.id = 2
    /\ Len(emitted) = 4
    /\ map # None /\ map.items # << >>
    /\ \/ single # None /\ single.fwBytes.bytes # firmware.bytes
       \/ batch # None /\ batch.fwBytes.bytes # firmware.bytes

\* The w*h pixels of block b all have an index below its colour count.
RealIndexesInPalette(b) ==
    \A p \in 0 .. b.width * b.height - 1 :
        LET index == IF b.colorsCount <= 16
                     THEN IF p % 2 = 0 THEN b.imageData[p \div 2 + 1] % 16
                                       ELSE b.imageData[p \div 2 + 1] \div 16
                     ELSE b.imageData[p + 1]
        IN  index < b.colorsCount

\* C25: the image of every block of the map whose w*h pixels all have an
\* index below the colour count decodes without error, whatever the unused
\* high nibble of a 4bpp block with an odd pixel count holds.
C25_ValidBlocksDecode ==
    map # None =>
        \A i \in 1 .. Len(map.items) :
            RealIndexesInPalette(map.items[i]) => getImage(map.items[i]).ok

\* C22: whenever a click on the patch button goes on to patch, the block it
\* patches is a block of the map of the firmware loaded at that moment, never
\* one selected or previewed under a firmware that has since been replaced.
C22_TargetOfCurrentMap ==
    [][(single = None /\ single' # None) =>
          \E i \in 1 .. Len(map.items) : map.items[i] = single'.selected]_vars

\* C23: for the block a suspended batch patch is working on, the header info
\* and the palette were read from the firmware whose copy the batch patches,
\* also when a firmware load has completed since the batch was started.
C23_InfoOfPatchedFirmware ==
    batch # None =>
        /\ batch.infoId = batch.fwId
        /\ batch.info = headerInfo(batch.fwBytes.bytes, batch.items[batch.pos].offset)

\* The batch's patch of block ent into cur, with header info and palette
\* read from orig.
BatchPatchOf(orig, cur, folder, ent) ==
    LET f == FileFor(folder, ent)
        info == headerInfo(orig, ent.offset)
    IN  IF f = None THEN [ok |-> FALSE]
        ELSE TryPatch(cur, ent.offset, f, info, PalFor(f, orig, ent.offset, info))

\* The bytes supplied for block ent: the RAW file's, or the picture's indices.
SuppliedFor(orig, folder, ent) ==
    LET f == FileFor(folder, ent)
        info == headerInfo(orig, ent.offset)
    IN  RawOf(f, info, PalFor(f, orig, ent.offset, info)).bytes

\* The copy of orig after the blocks have been handled in the given order.
RECURSIVE PatchInOrder(_, _, _, _, _)
PatchInOrder(orig, cur, folder, items, order) ==
    IF order = << >> THEN cur
    ELSE LET res == BatchPatchOf(orig, cur, folder, items[Head(order)])
         IN  PatchInOrder(orig, IF res.ok THEN res.bytes ELSE cur, folder, items, Tail(order))

Orders(n) == {p \in [1 .. n -> 1 .. n] : \A i, j \in 1 .. n : p[i] = p[j] => i = j}

\* A batch patch has run its loop and the firmware it copied is still loaded.
BatchFinished ==
    /\ out # None /\ out.by = "batch" /\ "run" \in DOMAIN out
    /\ firmware.id = out.run.fwId

\* C21: when a batch patch finishes with no firmware change during it, the
\* downloaded firmware equals the loaded one outside the pixel ranges of the
\* blocks whose patch succeeded, each such range holds the bytes supplied for
\* its block, a block whose patch failed keeps its bytes, every order of
\* handling the blocks gives the same result, and when no block was patched
\* there is an alert and no download.
C21_BatchResult ==
    BatchFinished =>
        LET orig == firmware.bytes
            items == map.items
            folder == out.run.folder
            Ok(k) == BatchPatchOf(orig, orig, folder, items[k]).ok
            info(k) == headerInfo(orig, items[k].offset)
            InData(p, k) == /\ info(k).dataStart < p
                            /\ p <= info(k).dataStart + info(k).dataLen
        IN  /\ out.run.patchedCount = Cardinality({k \in 1 .. Len(items) : Ok(k)})
            /\ IF \E k \in 1 .. Len(items) : Ok(k)
               THEN /\ out.status = "download"
                    /\ Len(out.bytes) = Len(orig)
                    /\ \A p \in 1 .. Len(orig) :
                          /\ (\A k \in 1 .. Len(items) : ~(Ok(k) /\ InData(p, k)))
                                => out.bytes[p] = orig[p]
                          /\ \A k \in 1 .. Len(items) :
                                /\ (Ok(k) /\ InData(p, k)) =>
                                      out.bytes[p] = SuppliedFor(orig, folder, items[k])[p - info(k).dataStart]
                                /\ (~Ok(k) /\ p > items[k].offset
                                           /\ p <= items[k].offset + items[k].size) =>
                                      out.bytes[p] = orig[p]
                    /\ \A order \in Orders(Len(items)) :
                          PatchInOrder(orig, orig, folder, items, order) = out.bytes
               ELSE /\ out.status = "alert"
                    /\ out.bytes = << >>

\* Both blocks of a firmware patched by one batch.
C21_Witness ==
    /\ BatchFinished
    /\ out.status = "download"
    /\ out.run.patchedCount = 2
    /\ out.bytes # firmware.bytes

\* One block patched and one refused.
C21_Mixed ==
    /\ BatchFinished
    /\ out.status = "download"
    /\ out.run.patchedCount = 1
    /\ out.run.missing # << >>

\* Every block with a file refused.
C21_NonePatched ==
    /\ BatchFinished
    /\ out.status = "alert"
    /\ out.run.missing # << >>

\* ------------------------------------------------------------ patch claims
\* The last patch step used the header info of the very bytes it patched.
InfoOfPatchedBytes ==
    /\ patched # None
    /\ patched.info = headerInfo(patched.fw, patched.off)

C4_Step ==
    (firmware # None /\ firmware'.id = firmware.id) => firmware'.bytes = firmware.bytes

C4_FirmwareNeverPatched == [][C4_Step]_vars

\* C4 witness: a patch succeeded on its copy, which now differs from the
\* loaded firmware.
C4_Witness ==
    /\ patched # None /\ patched.result.ok
    /\ firmware.bytes = patched.fw
    /\ patched.result.bytes # firmware.bytes
    /\ out # None /\ out.status = "download" /\ out.bytes # firmware.bytes

\* C9: feeding the Export RAW file of a block of the map, unchanged, to the
\* raw patch of the same block succeeds and the patched firmware is
\* byte-identical to the loaded firmware.
C9_RawExportReimport ==
    (/\ patched # None /\ patched.by = "single"
     /\ exported # None /\ patched.f = exported
     /\ patched.fw = firmware.bytes
     /\ exported.offset = patched.off
     /\ \E i \in 1 .. Len(map.items) :
           map.items[i].offset = patched.off /\ map.items[i].bytes = exported.bytes)
        => (patched.result.ok /\ patched.result.bytes = firmware.bytes)

\* ------------------------------------------------------------ codec claims
\* the palette colours of the indices, in order
ColoursOf(ix, pal) == [i \in 1 .. Len(ix) |-> pal[ix[i] + 1]]

\* C10 as stated: encode then decode yields exactly the palette colours of
\* the indices, with no extra or missing pixel.
C10_RoundTripExact ==
    pixels # None => (pixels.ok /\ pixels.pixels = ColoursOf(indexes, palette))

\* C10 amended: decode succeeds and its first Len(indexes) pixels are the
\* palette colours of the indices; at 8bpp there is no other pixel; at 4bpp
\* the buffer holds 2*ceil(n/2) pixels, so for an odd count one more pixel
\* follows, the colour of palette entry 0.
C10_RoundTripPadded ==
    pixels # None =>
        LET n == Len(indexes)
            total == IF Len(palette) <= 16 THEN 2 * CeilDiv(n, 2) ELSE n
        IN  /\ pixels.ok
            /\ Len(pixels.pixels) = total
            /\ SubSeq(pixels.pixels, 1, n) = ColoursOf(indexes, palette)
            /\ \A k \in n + 1 .. total : pixels.pixels[k] = palette[1]

\* C10 witness: an odd number of pixels whose last index is not 0 has been
\* packed at 4bpp and decoded.
C10_Witness ==
    /\ pixels # None
    /\ Len(palette) <= 16
    /\ Len(indexes) % 2 = 1
    /\ indexes[Len(indexes)] # 0

\* C8 as stated: decoding indices and quantizing the result against the same
\* palette returns the original indices exactly.
C8_QuantizeExact ==
    quant # None => quant.indexes = indexes

\* C8 amended: each pixel quantizes to the lowest index whose palette entry
\* has the colour of the original index's entry; so the original indices
\* come back exactly when the palette's entries are pairwise distinct.
LowestSameColour(i, pal) ==
    CHOOSE k \in 0 .. i :
        /\ pal[k + 1] = pal[i + 1]
        /\ \A j \in 0 .. k - 1 : pal[j + 1] # pal[i + 1]

C8_QuantizeLowestSameColour ==
    quant # None =>
        /\ quant.indexes = [i \in 1 .. Len(indexes) |-> LowestSameColour(indexes[i], palette)]
        /\ (\A a, b \in 1 .. Len(palette) : palette[a] = palette[b] => a = b)
              => quant.indexes = indexes

\* C8 witness: a picture that uses the second of two equal palette entries
\* has been quantized.
C8_Witness ==
    /\ quant # None
    /\ \E i \in 1 .. Len(indexes) :
          \E j \in 0 .. indexes[i] - 1 : palette[j + 1] = palette[indexes[i] + 1]

\* ------------------------------------------------------------ direct call claims
\* r is the integer nearest to n / d
IsRounded(r, n, d) == 2 * (IF r * d >= n THEN r * d - n ELSE n - r * d) <= d

CalledFn(name) == call # None /\ call.fn = name

\* C11: decodePalette reads each pair of bytes as a big-endian 16-bit word,
\* bits 15-11 blue, 10-5 green, 4-0 red, rescales each channel c to
\* round(c*255/31) or round(c*255/63), sets alpha to 255 and gives the
\* entries in input order as [red, green, blue, 255]; word 0xF800 decodes
\* to (0,0,255,255).
C11_PaletteDecode ==
    (CalledFn("decodePalette") /\ Len(call.bytes) % 2 = 0) =>
        LET pal == call.result.value
        IN  /\ call.result.ok
            /\ Len(pal) = Len(call.bytes) \div 2
            /\ \A k \in 1 .. Len(pal) :
                  LET word == 256 * call.bytes[2 * k - 1] + call.bytes[2 * k]
                      blue5 == word \div 2048
                      green6 == (word \div 32) % 64
                      red5 == word % 32
                  IN  /\ Len(pal[k]) = 4
                      /\ IsRounded(pal[k][1], red5 * 255, 31)
                      /\ IsRounded(pal[k][2], green6 * 255, 63)
                      /\ IsRounded(pal[k][3], blue5 * 255, 31)
                      /\ pal[k][4] = 255
            /\ (call.bytes = <<248, 0>>) => pal = <<(<<0, 0, 255, 255>>)>>

\* C11 witness: two words, 0xF800 then 0x07E0, decoded to blue then green.
C11_Witness ==
    /\ CalledFn("decodePalette")
    /\ call.bytes = <<248, 0, 7, 224>>
    /\ call.result.value = <<(<<0, 0, 255, 255>>), (<<0, 255, 0, 255>>)>>

\* C19: decodePalette of a byte sequence of odd length fails with an error
\* instead of returning a palette.
C19_OddPaletteFails ==
    (CalledFn("decodePalette") /\ Len(call.bytes) % 2 = 1) => ~call.result.ok

\* Every index stored in bytes, a nibble for a palette of at most 16 entries
\* and a byte otherwise, has an entry in pal.
AllIndexesInPalette(bytes, pal) ==
    \A i \in 1 .. Len(bytes) :
        IF Len(pal) <= 16
        THEN bytes[i] % 16 < Len(pal) /\ bytes[i] \div 16 < Len(pal)
        ELSE bytes[i] < Len(pal)

\* C12: decodeImage gives, for a palette of at most 16 entries, two pixels
\* per byte, the low nibble's palette entry at position 2i and the high
\* nibble's at position 2i+1; for a longer palette one pixel per byte, the
\* entry at the byte's value at position i.
C12_PixelDecode ==
    (CalledFn("decodeImage") /\ call.result.ok) =>
        LET px == call.result.pixels
            b == call.bytes
            pal == call.palette
        IN  IF Len(pal) <= 16
            THEN /\ Len(px) = 2 * Len(b)
                 /\ \A i \in 0 .. Len(b) - 1 :
                       /\ px[2 * i + 1] = pal[(b[i + 1] % 16) + 1]
                       /\ px[2 * i + 2] = pal[(b[i + 1] \div 16) + 1]
            ELSE /\ Len(px) = Len(b)
                 /\ \A i \in 0 .. Len(b) - 1 : px[i + 1] = pal[b[i + 1] + 1]

\* C12 witness: a byte whose two nibbles name entries of different colours
\* has been decoded at 4 bits per pixel.
C12_Witness ==
    /\ CalledFn("decodeImage") /\ call.result.ok
    /\ Len(call.palette) <= 16
    /\ \E i \in 1 .. Len(call.bytes) :
          call.palette[(call.bytes[i] % 16) + 1] # call.palette[(call.bytes[i] \div 16) + 1]

\* C18: decoding pixel bytes that hold an index >= palette.length ends in
\* an error; no pixel buffer is returned.
C18_BadIndexFails ==
    (CalledFn("decodeImage") /\ ~AllIndexesInPalette(call.bytes, call.palette))
        => ~call.result.ok

\* C18 witness: a decode at 8 bits per pixel met a byte beyond the palette
\* after a byte inside it.
C18_Witness ==
    /\ CalledFn("decodeImage")
    /\ Len(call.palette) > 16
    /\ Len(call.bytes) = 2
    /\ call.bytes[1] < Len(call.palette)
    /\ call.bytes[2] >= Len(call.palette)
    /\ ~call.result.ok

\* The squared Euclidean distance of two colours over red, green and blue.
RGBDistance(c, p) ==
    (c[1] - p[1]) * (c[1] - p[1]) + (c[2] - p[2]) * (c[2] - p[2])
        + (c[3] - p[3]) * (c[3] - p[3])

\* C13: for a non-empty palette nearestIndex returns a valid index whose
\* entry minimises the squared distance over (R,G,B), alpha ignored, and
\* the lowest index among the entries at that minimal distance.
C13_NearestLowest ==
    (CalledFn("nearestIndex") /\ Len(call.palette) > 0) =>
        LET r == call.result.value
            pal == call.palette
            D(j) == RGBDistance(call.rgb, pal[j + 1])
        IN  /\ call.result.ok
            /\ r \in 0 .. Len(pal) - 1
            /\ \A j \in 0 .. Len(pal) - 1 : D(r) <= D(j)
            /\ \A j \in 0 .. r - 1 : D(j) > D(r)
            /\ \A a \in {0, 255} :
                  nearestIndex(<<call.rgb[1], call.rgb[2], call.rgb[3], a>>, pal) = r

\* C13 witness: a colour that is in no palette entry, with two entries of
\* different colours at the same minimal distance, neither of them first in
\* the palette, and an alpha other than 255.
C13_Witness ==
    /\ CalledFn("nearestIndex")
    /\ call.rgb[4] = 0
    /\ LET r == call.result.value
           pal == call.palette
       IN  /\ Len(pal) > 0
           /\ r > 0
           /\ RGBDistance(call.rgb, pal[r + 1]) > 0
           /\ \E j \in r + 1 .. Len(pal) - 1 :
                 /\ pal[j + 1] # pal[r + 1]
                 /\ RGBDistance(call.rgb, pal[j + 1]) = RGBDistance(call.rgb, pal[r + 1])

\* C17: packRaw4bpp gives ceil(n/2) bytes for n indexes; byte j is
\* (index[2j+1] << 4) | index[2j] on the low 4 bits of each index, and for an
\* odd n the high nibble of the last byte is 0.
C17_Pack4bpp ==
    CalledFn("packRaw4bpp") =>
        LET ix == call.indexes
            n == Len(ix)
            bytesOut == call.result.value
        IN  /\ call.result.ok
            /\ Len(bytesOut) = (n + 1) \div 2
            /\ \A j \in 0 .. Len(bytesOut) - 1 :
                  /\ bytesOut[j + 1] % 16 = ix[2 * j + 1] % 16
                  /\ bytesOut[j + 1] \div 16 = (IF 2 * j + 1 < n THEN ix[2 * j + 2] % 16 ELSE 0)

\* C17 witness: three indexes, two of them above 15, packed into two bytes.
C17_Witness ==
    /\ CalledFn("packRaw4bpp")
    /\ call.indexes = <<37, 255, 16>>
    /\ call.result.value = <<245, 0>>

====
